---- MODULE Spec2Model ----
(***************************************************************************)
(* Projectile motion simulator: the animation controller (CanvasRenderer), *)
(* the UI controller that drives it (UIController) and the kinematics      *)
(* they call (physics.js).                                                 *)
(*                                                                         *)
(* Numbers are fixed point: times in milliseconds, lengths in centimetres, *)
(* velocities in m/s as entered (cm/s once projected on an axis), gravity  *)
(* in cm/s^2, sines and cosines in hundredths.  currentTime and flightTime *)
(* are the source's seconds held in milliseconds, so the source's division *)
(* of elapsed milliseconds by 1000 keeps the same integer.                 *)
(***************************************************************************)
EXTENDS Integers, Sequences, FiniteSets, TLC

\* ------------------------------------------------------------------ bounds
\* Clock reading (performance.now / frame timestamp) when the page is ready.
ClockStart == 1000
\* The clock advances in steps of Quantum milliseconds, at most MaxAdvances times.
Quantum == 2000
MaxAdvances == 3
\* At most MaxPending frame callbacks are left scheduled at once.
MaxPending == 2
\* The twin run stays paused at most MaxSkew quanta longer than the first.
MaxSkew == 1
\* The sampler is called directly with 1..MaxSamples intervals.
MaxSamples == 4
\* Positions are whole centimetres and times whole milliseconds: a landing
\* height within LandingEpsilon centimetres counts as the ground.
LandingEpsilon == 15

\* ------------------------------------------------------- program constants
\* JavaScript null/undefined and NaN, outside the range of every number used.
NULL == -1
NaN == -2
\* Sample counts of the run trajectory and of the preview trajectory.
RunSamples == 200
PreviewSamples == 100
\* GRAVITY_PRESETS.earth, in cm/s^2.
EarthGravity == 981

Min(a, b) == IF a <= b THEN a ELSE b
Max(a, b) == IF a >= b THEN a ELSE b

\* ---------------------------------------------------------------- physics
\* Math.sin / Math.cos of an angle in degrees, in hundredths.
Sin100(deg) ==
    CASE deg = 0 -> 0 [] deg = 30 -> 50 [] deg = 45 -> 71
      [] deg = 60 -> 87 [] deg = 90 -> 100
Cos100(deg) ==
    CASE deg = 0 -> 100 [] deg = 30 -> 87 [] deg = 45 -> 71
      [] deg = 60 -> 50 [] deg = 90 -> 0

\* Math.sqrt on non-negative integers, rounded down.
RECURSIVE SqrtUp(_, _)
SqrtUp(n, r) == IF (r + 1) * (r + 1) > n THEN r ELSE SqrtUp(n, r + 1)
RECURSIVE SqrtBin(_, _, _)
SqrtBin(n, lo, hi) ==
    IF hi - lo <= 8 THEN SqrtUp(n, lo)
    ELSE LET mid == (lo + hi) \div 2
         IN  IF mid * mid <= n THEN SqrtBin(n, mid, hi) ELSE SqrtBin(n, lo, mid)
ISqrt(n) == SqrtBin(n, 0, 46340)

\* calculateFlightTimeLevel is the level-ground formula 2 v0 sin(th) / g, which
\* ignores the initial height.
calculateFlightTimeLevel(p) ==
    Max(0, (2000 * p.initialVelocity * Sin100(p.launchAngle)) \div p.gravity)

\* calculateFlightTime: the positive root of -g/2 t^2 + v0 sin(th) t + h0 = 0,
\* in milliseconds.  b is in cm/s, c in cm, the discriminant b^2 - 4ac in cm^2/s^2.
calculateFlightTime(p) ==
    LET b == p.initialVelocity * Sin100(p.launchAngle)
        c == p.initialHeight
        discriminant == b * b + 2 * p.gravity * c
    IN  IF discriminant < 0 THEN 0
        ELSE Max(0, (1000 * (b + ISqrt(discriminant))) \div p.gravity)

\* calculatePositionAtTime, time in milliseconds, position in centimetres.
calculatePositionAtTime(time, p) ==
    [x |-> (p.initialVelocity * Cos100(p.launchAngle) * time) \div 1000,
     y |-> p.initialHeight
           + (p.initialVelocity * Sin100(p.launchAngle) * time) \div 1000
           - (((p.gravity * time) \div 100) * time) \div 20000]

calculateMaxHeight(p) ==
    LET vs == p.initialVelocity * Sin100(p.launchAngle)
    IN  p.initialHeight + (vs * vs) \div (2 * p.gravity)

calculateRange(p) ==
    (p.initialVelocity * Cos100(p.launchAngle) * calculateFlightTime(p)) \div 1000

calculateFinalVelocity(p) == p.initialVelocity * Cos100(p.launchAngle)

calculateSimulationResults(p) ==
    [maxHeight |-> calculateMaxHeight(p),
     range |-> calculateRange(p),
     flightTime |-> calculateFlightTime(p),
     finalVelocity |-> calculateFinalVelocity(p)]

\* generateTrajectoryPointsShort stops its loop one sample early (i < numPoints).
generateTrajectoryPointsShort(p, numPoints) ==
    LET flightTime == calculateFlightTime(p)
    IN  [k \in 1..numPoints |->
           LET t == ((k - 1) * flightTime) \div numPoints
               position == calculatePositionAtTime(t, p)
           IN  [x |-> position.x, y |-> Max(0, position.y), t |-> t]]

\* generateTrajectoryPoints: numPoints + 1 samples at evenly spaced times.
generateTrajectoryPoints(p, numPoints) ==
    LET flightTime == calculateFlightTime(p)
    IN  [k \in 1..(numPoints + 1) |->
           LET t == ((k - 1) * flightTime) \div numPoints
               position == calculatePositionAtTime(t, p)
           IN  [x |-> position.x, y |-> Max(0, position.y), t |-> t]]


\* ------------------------------------------------------------------ values
Params(v, a, h, g) ==
    [initialVelocity |-> v, launchAngle |-> a, initialHeight |-> h, gravity |-> g]

\* The parameters both constructors start from (25 m/s, 45 degrees, 0 m, 9.81).
DefaultParams == Params(25, 45, 0, EarthGravity)

\* A point array is held as what generateTrajectoryPoints was called with: the
\* sampler is deterministic, so the array is Points of it.  numPoints = 0 is [].
NoPoints == [numPoints |-> 0, of |-> DefaultParams]
Sampled(p, numPoints) == [numPoints |-> numPoints, of |-> p]
Points(h) == IF h.numPoints = 0 THEN <<>> ELSE generateTrajectoryPoints(h.of, h.numPoints)
PointCount(h) == IF h.numPoints = 0 THEN 0 ELSE h.numPoints + 1


\* The value requestAnimationFrame returns (a positive handle).
RafHandle == 1

Falsy(x) == x = NULL \/ x = 0 \/ x = NaN
ToNumber(x) == IF x = NULL THEN 0 ELSE x

\* ----------------------------------------------------------- render surface
NoFrame == [kind |-> "none", points |-> NoPoints, drawnTo |-> 0,
            projectile |-> [x |-> 0, y |-> 0]]

\* drawTrajectory: the index of the last sample a line is drawn to (0: no line).
drawTrajectory(points, upToIndex) ==
    IF PointCount(points) < 2 THEN 0
    ELSE IF upToIndex = NaN THEN 0
    ELSE Max(0, Min(upToIndex, PointCount(points) - 1))

\* renderPreview: dashed preview line, projectile on the launcher.
renderPreview(r) ==
    [kind |-> "preview", points |-> r.previewPoints, drawnTo |-> PointCount(r.previewPoints) - 1,
     projectile |-> [x |-> 0, y |-> r.params.initialHeight]]

\* ------------------------------------------------------------ scale mapper
\* devicePixel sizes of the canvas element; padding 60/40 and 40/60.
drawableWidth(r) == r.width - 60 - 40
drawableHeight(r) == r.height - 40 - 60

\* calculateOptimalScalePadsDefault applies the 10 m default before the padding.
calculateOptimalScalePadsDefault(r, maxX, maxY) ==
    LET paddedMaxX == ((IF maxX = 0 THEN 1000 ELSE maxX) * 11) \div 10
        paddedMaxY == ((IF maxY = 0 THEN 1000 ELSE maxY) * 11) \div 10
        scaleX == (drawableWidth(r) * 100000) \div paddedMaxX
        scaleY == (drawableHeight(r) * 100000) \div paddedMaxY
    IN  Max(Min(Min(scaleX, scaleY), 20000), 2000)

\* calculateOptimalScaleNoFloor lacks the lower clamp (Math.max(scale, 2)).
calculateOptimalScaleNoFloor(r, maxX, maxY) ==
    LET paddedMaxX == IF (maxX * 11) \div 10 = 0 THEN 1000 ELSE (maxX * 11) \div 10
        paddedMaxY == IF (maxY * 11) \div 10 = 0 THEN 1000 ELSE (maxY * 11) \div 10
        scaleX == (drawableWidth(r) * 100000) \div paddedMaxX
        scaleY == (drawableHeight(r) * 100000) \div paddedMaxY
    IN  Min(Min(scaleX, scaleY), 20000)

\* calculateOptimalScale, in thousandths of a pixel per metre.
calculateOptimalScale(r, maxX, maxY) ==
    LET paddedMaxX == IF (maxX * 11) \div 10 = 0 THEN 1000 ELSE (maxX * 11) \div 10
        paddedMaxY == IF (maxY * 11) \div 10 = 0 THEN 1000 ELSE (maxY * 11) \div 10
        scaleX == (drawableWidth(r) * 100000) \div paddedMaxX
        scaleY == (drawableHeight(r) * 100000) \div paddedMaxY
    IN  Max(Min(Min(scaleX, scaleY), 20000), 2000)

\* -------------------------------------------------- CanvasRenderer methods
\* Each takes the renderer's fields r (and the frame-callback queue q where it
\* schedules or cancels) and yields the fields after the call.

\* The queue of scheduled animate callbacks: how many are pending, and whether
\* the one animationId names is among them (it is then the newest).
NoQueue == [pending |-> 0, latest |-> FALSE]
requestAnimationFrame(q) == [pending |-> q.pending + 1, latest |-> TRUE]
cancelAnimationFrame(q) ==
    IF q.latest THEN [pending |-> q.pending - 1, latest |-> FALSE] ELSE q

setupCanvas(r, rect) == [r EXCEPT !.width = rect.width, !.height = rect.height]

setParams(r, params) == [r EXCEPT !.params = params]

updatePreview(r) ==
    LET results == calculateSimulationResults(r.params)
    IN  [r EXCEPT !.scale = calculateOptimalScale(r, results.range, results.maxHeight),
                  !.previewPoints = Sampled(r.params, PreviewSamples)]

startSimulation(r) ==
    LET results == calculateSimulationResults(r.params)
    IN  [r EXCEPT !.isAnimating = TRUE,
                  !.isPaused = FALSE,
                  !.currentTime = 0,
                  !.startTimestamp = NULL,
                  !.scale = calculateOptimalScale(r, results.range, results.maxHeight),
                  !.trajectoryPoints = Sampled(r.params, RunSamples),
                  !.flightTime = results.flightTime,
                  !.animationId = RafHandle]

pause(r, clock) == [r EXCEPT !.isPaused = TRUE, !.pauseTimestamp = clock]

\* resumeUnguarded lacks the isPaused check.
resumeUnguarded(r, clock) ==
    [r EXCEPT !.startTimestamp = ToNumber(@) + (clock - ToNumber(r.pauseTimestamp)),
              !.isPaused = FALSE]

resume(r, clock) ==
    IF r.isPaused
    THEN LET pauseDuration == clock - r.pauseTimestamp
         IN  [r EXCEPT !.startTimestamp = ToNumber(@) + pauseDuration, !.isPaused = FALSE]
    ELSE r

\* resetKeepsAnimating leaves isAnimating as it was.
resetKeepsAnimating(r) ==
    updatePreview([r EXCEPT !.isPaused = FALSE,
                            !.currentTime = 0,
                            !.startTimestamp = NULL])

reset(r) ==
    updatePreview([r EXCEPT !.isAnimating = FALSE,
                            !.isPaused = FALSE,
                            !.currentTime = 0,
                            !.startTimestamp = NULL])

\* The queue after reset: cancelAnimationFrame(animationId) when it is set.
resetQueue(r, q) == IF r.animationId # NULL THEN cancelAnimationFrame(q) ELSE q

\* handleResizeResets restarts the preview from scratch on every resize.
handleResizeResets(r, rect) == reset(setupCanvas(r, rect))

handleResizeRenderer(r, rect) ==
    LET s == setupCanvas(r, rect)
        results == calculateSimulationResults(s.params)
    IN  IF s.isAnimating
        THEN [s EXCEPT !.scale = calculateOptimalScale(s, results.range, results.maxHeight)]
        ELSE updatePreview(s)

\* Variants of animate with one plausible slip each.
\* animateFixedStep advances by a fixed 16 ms per callback instead of by the clock.
animateFixedStep(r, timestamp) ==
    IF ~r.isAnimating
    THEN [r |-> r, request |-> FALSE, update |-> FALSE, complete |-> FALSE, frame |-> NoFrame]
    ELSE IF r.isPaused
    THEN [r |-> [r EXCEPT !.animationId = RafHandle],
          request |-> TRUE, update |-> FALSE, complete |-> FALSE, frame |-> NoFrame]
    ELSE LET startTimestamp == IF Falsy(r.startTimestamp) THEN timestamp ELSE r.startTimestamp
             currentTime == Min(r.currentTime + 16, r.flightTime)
             position == calculatePositionAtTime(currentTime, r.params)
             currentIndex == IF r.flightTime = 0 THEN NaN
                             ELSE (currentTime * (PointCount(r.trajectoryPoints) - 1))
                                    \div r.flightTime
             complete == currentTime >= r.flightTime
         IN  [r |-> [r EXCEPT !.startTimestamp = startTimestamp,
                              !.currentTime = currentTime,
                              !.isAnimating = ~complete,
                              !.animationId = IF complete THEN @ ELSE RafHandle],
              request |-> ~complete, update |-> TRUE, complete |-> complete,
              frame |-> [kind |-> "animate",
                         points |-> r.trajectoryPoints,
                         drawnTo |-> drawTrajectory(r.trajectoryPoints, currentIndex),
                         projectile |-> [x |-> position.x, y |-> Max(0, position.y)]]]

\* animateCore is animate past its two guards; strict: completion tested with >.
animateCore(r, timestamp, strict) ==
    LET startTimestamp == IF Falsy(r.startTimestamp) THEN timestamp ELSE r.startTimestamp
        elapsed == timestamp - startTimestamp
        currentTime == Min(elapsed, r.flightTime)
        position == calculatePositionAtTime(currentTime, r.params)
        currentIndex == IF r.flightTime = 0 THEN NaN
                        ELSE (currentTime * (PointCount(r.trajectoryPoints) - 1))
                               \div r.flightTime
        complete == IF strict THEN currentTime > r.flightTime ELSE currentTime >= r.flightTime
    IN  [r |-> [r EXCEPT !.startTimestamp = startTimestamp,
                         !.currentTime = currentTime,
                         !.isAnimating = ~complete,
                         !.animationId = IF complete THEN @ ELSE RafHandle],
         request |-> ~complete, update |-> TRUE, complete |-> complete,
         frame |-> [kind |-> "animate",
                    points |-> r.trajectoryPoints,
                    drawnTo |-> drawTrajectory(r.trajectoryPoints, currentIndex),
                    projectile |-> [x |-> position.x, y |-> Max(0, position.y)]]]

\* animateNoAnchor measures elapsed time from the clock's origin instead of
\* anchoring at the first frame.
animateNoAnchor(r, timestamp) ==
    IF ~r.isAnimating
    THEN [r |-> r, request |-> FALSE, update |-> FALSE, complete |-> FALSE, frame |-> NoFrame]
    ELSE IF r.isPaused
    THEN [r |-> [r EXCEPT !.animationId = RafHandle],
          request |-> TRUE, update |-> FALSE, complete |-> FALSE, frame |-> NoFrame]
    ELSE animateCore([r EXCEPT !.startTimestamp = IF Falsy(@) THEN 1 ELSE @],
                     timestamp, FALSE)

\* animateUnguarded lacks the isAnimating check at the top.
animateUnguarded(r, timestamp) ==
    IF r.isPaused
    THEN [r |-> [r EXCEPT !.animationId = RafHandle],
          request |-> TRUE, update |-> FALSE, complete |-> FALSE, frame |-> NoFrame]
    ELSE animateCore(r, timestamp, FALSE)

\* animateIgnoringPause lacks the isPaused check.
animateIgnoringPause(r, timestamp) ==
    IF ~r.isAnimating
    THEN [r |-> r, request |-> FALSE, update |-> FALSE, complete |-> FALSE, frame |-> NoFrame]
    ELSE animateCore(r, timestamp, FALSE)

\* animateUnclamped shows the elapsed time without the cap at flightTime.
animateUnclamped(r, timestamp) ==
    IF ~r.isAnimating
    THEN [r |-> r, request |-> FALSE, update |-> FALSE, complete |-> FALSE, frame |-> NoFrame]
    ELSE IF r.isPaused
    THEN [r |-> [r EXCEPT !.animationId = RafHandle],
          request |-> TRUE, update |-> FALSE, complete |-> FALSE, frame |-> NoFrame]
    ELSE LET a == animateCore(r, timestamp, FALSE)
             elapsed == timestamp - a.r.startTimestamp
         IN  [a EXCEPT !.r.currentTime = elapsed]

\* animateNeverDone tests completion with > instead of >=.
animateNeverDone(r, timestamp) ==
    IF ~r.isAnimating
    THEN [r |-> r, request |-> FALSE, update |-> FALSE, complete |-> FALSE, frame |-> NoFrame]
    ELSE IF r.isPaused
    THEN [r |-> [r EXCEPT !.animationId = RafHandle],
          request |-> TRUE, update |-> FALSE, complete |-> FALSE, frame |-> NoFrame]
    ELSE animateCore(r, timestamp, TRUE)

\* animate: one frame callback.  r: the fields after it; request: it scheduled
\* the next callback; update, complete: it invoked onUpdate, onComplete;
\* frame: what it drew (NoFrame: nothing).
animate(r, timestamp) ==
    IF ~r.isAnimating
    THEN [r |-> r, request |-> FALSE, update |-> FALSE, complete |-> FALSE, frame |-> NoFrame]
    ELSE IF r.isPaused
    THEN [r |-> [r EXCEPT !.animationId = RafHandle],
          request |-> TRUE, update |-> FALSE, complete |-> FALSE, frame |-> NoFrame]
    ELSE LET startTimestamp == IF Falsy(r.startTimestamp) THEN timestamp ELSE r.startTimestamp
             elapsed == timestamp - startTimestamp
             currentTime == Min(elapsed, r.flightTime)
             position == calculatePositionAtTime(currentTime, r.params)
             currentIndex == IF r.flightTime = 0 THEN NaN
                             ELSE (currentTime * (PointCount(r.trajectoryPoints) - 1))
                                    \div r.flightTime
             complete == currentTime >= r.flightTime
         IN  [r |-> [r EXCEPT !.startTimestamp = startTimestamp,
                              !.currentTime = currentTime,
                              !.isAnimating = ~complete,
                              !.animationId = IF complete THEN @ ELSE RafHandle],
              request |-> ~complete,
              update |-> TRUE,
              complete |-> complete,
              frame |-> [kind |-> "animate",
                         points |-> r.trajectoryPoints,
                         drawnTo |-> drawTrajectory(r.trajectoryPoints, currentIndex),
                         projectile |-> [x |-> position.x, y |-> Max(0, position.y)]]]

\* One animation frame of the browser: every callback scheduled before the
\* frame runs, oldest first, with the frame's timestamp; the callbacks they
\* schedule wait for the next frame.
RECURSIVE runCallbacks(_, _, _)
runCallbacks(acc, k, timestamp) ==
    IF k = 0 THEN acc
    ELSE LET after(a) ==
                 [r |-> a.r,
                  requests |-> acc.requests + (IF a.request THEN 1 ELSE 0),
                  updates |-> acc.updates + (IF a.update THEN 1 ELSE 0),
                  completes |-> acc.completes + (IF a.complete THEN 1 ELSE 0),
                  frame |-> IF a.frame.kind = "none" THEN acc.frame ELSE a.frame]
         IN  CHOOSE done \in {runCallbacks(after(a), k - 1, timestamp) :
                                  a \in {animate(acc.r, timestamp)}} : TRUE

animationFrame(r, q, timestamp) ==
    runCallbacks([r |-> r, requests |-> 0, updates |-> 0, completes |-> 0, frame |-> NoFrame],
                 q.pending, timestamp)

\* The CanvasRenderer after its constructor, for a canvas element of size rect.
NewRenderer(rect) ==
    [isAnimating |-> FALSE, isPaused |-> FALSE, currentTime |-> 0,
     startTimestamp |-> NULL, pauseTimestamp |-> NULL, animationId |-> NULL,
     params |-> DefaultParams, scale |-> 10000,
     trajectoryPoints |-> NoPoints, previewPoints |-> NoPoints,
     flightTime |-> NULL, width |-> rect.width, height |-> rect.height]


\* simulationValidation (the server's rules for params): TRUE when no rule
\* fails.  Gravity is in cm/s^2, so the minimum 0.1 is 10.
simulationValidation(p) ==
    /\ p.initialVelocity >= 0 /\ p.initialVelocity <= 100
    /\ p.launchAngle >= 0 /\ p.launchAngle <= 90
    /\ p.initialHeight >= 0
    /\ p.gravity >= 10

\* validateParameters: TRUE when no error is reported.
validateParameters(p) ==
    /\ ~(p.initialVelocity < 0 \/ p.initialVelocity > 200)
    /\ ~(p.launchAngle < 0 \/ p.launchAngle > 90)
    /\ ~(p.initialHeight < 0)
    /\ ~(p.gravity <= 0)

\* ------------------------------------------------------------------ inputs
\* Values typed or slid into the velocity (m/s), angle (degrees) and height (m)
\* inputs, the gravity options, saved simulations, canvas element sizes.
VelocityInputs == {-5, 0}
AngleInputs == {45}
HeightInputs == {0}
GravityInputs == {EarthGravity}
SavedSimulations == {DefaultParams}
InitialRect == [width |-> 800, height |-> 500]
RectSizes == {InitialRect, [width |-> 200, height |-> 140]}

\* ------------------------------------------------------------------- state
VARIABLES
    now,              \* the clock: performance.now() and the frame timestamp
    rect,             \* getBoundingClientRect() of the canvas element
    renderer,         \* the CanvasRenderer's fields
    queue,            \* the frame callbacks the renderer has scheduled
    canvas,           \* what was last drawn on the canvas
    uiParams,         \* UIController.params
    simulationState,  \* UIController.simulationState
    errors,           \* the control groups carrying the has-error class
    display,          \* the result cards: cleared, or showing the results of params
    last,             \* the handler that ran last and the callbacks it invoked
    now2, renderer2, queue2,  \* a second run of the same events, with longer pauses
    tooltip,          \* the hover tooltip: hidden, or the sample it reports on
    calc,             \* the last direct call of a physics.js function and its result
    ranFor,           \* the wall-clock time the current run has spent not paused
    countUp           \* the count-up callbacks of displayResults still scheduled

main == <<now, rect, renderer, queue, canvas, uiParams, simulationState, errors,
          display, last>>
twin == <<now2, renderer2, queue2>>
side == <<tooltip, calc, ranFor, countUp>>
vars == <<main, twin, side>>

\* The result cards show calculateSimulationResults of the params they were
\* handed (displayResults), or placeholders (clearResults).
Cleared == [shown |-> FALSE, of |-> DefaultParams]
Showing(params) == [shown |-> TRUE, of |-> params]
DisplayedResults == calculateSimulationResults(display.of)
\* The tooltip without the class 'visible'; no physics call made yet.
\* No count-up callback is scheduled (countUp holds the params whose results
\* a scheduled callback of animateValue is still going to write).
NoCountUp == {}
Hidden == [visible |-> FALSE, height |-> NULL, distance |-> NULL, velocity |-> NULL,
           left |-> NULL, top |-> NULL]
NoCall == [call |-> "none"]
Did(op, updates, completes) == [op |-> op, updates |-> updates, completes |-> completes]

\* uiUpdatePreviewAlways lacks the check of simulationState.
uiUpdatePreviewAlways(r, state, params) == updatePreview(setParams(r, params))

\* UIController.updatePreview, on renderer fields r with the UI state and params.
uiUpdatePreview(r, state, params) ==
    IF state = "idle" \/ state = "completed"
    THEN updatePreview(setParams(r, params))
    ELSE r
uiPreviewCanvas(r, state, params, shown) ==
    IF state = "idle" \/ state = "completed"
    THEN renderPreview(uiUpdatePreview(r, state, params))
    ELSE shown

\* The constructors: UIController.init ends with updatePreview, updateButtonStates.
Init ==
    /\ now = ClockStart
    /\ rect = InitialRect
    /\ renderer = uiUpdatePreview(NewRenderer(InitialRect), "idle", DefaultParams)
    /\ queue = NoQueue
    /\ canvas = renderPreview(renderer)
    /\ uiParams = DefaultParams
    /\ simulationState = "idle"
    /\ errors = {}
    /\ display = Cleared
    /\ last = Did("input", 0, 0)
    /\ now2 = now
    /\ renderer2 = renderer
    /\ queue2 = queue
    /\ tooltip = Hidden
    /\ calc = NoCall
    /\ ranFor = 0
    /\ countUp = NoCountUp

\* ---------------------------------------------------------- input handlers
\* A parameter edit: the new UI params, the control group and whether the raw
\* value is in error; then UIController.updatePreview.
Edit(params, group, inError) ==
    /\ uiParams' = params
    /\ errors' = IF inError THEN errors \cup {group} ELSE errors \ {group}
    /\ renderer' = uiUpdatePreview(renderer, simulationState, params)
    /\ canvas' = uiPreviewCanvas(renderer, simulationState, params, canvas)
    /\ last' = Did("input", 0, 0)
    /\ UNCHANGED <<now, rect, queue, simulationState, display>>
TwinEdit == renderer2' = uiUpdatePreview(renderer2, simulationState, uiParams')
            /\ UNCHANGED <<now2, queue2>>

handleVelocityChange ==
    \E raw \in VelocityInputs :
        Edit([uiParams EXCEPT !.initialVelocity = Max(0, Min(100, raw))],
             "velocity", raw < 0 \/ raw > 100)

handleAngleChange ==
    \E raw \in AngleInputs :
        Edit([uiParams EXCEPT !.launchAngle = Max(0, Min(90, raw))],
             "angle", raw < 0 \/ raw > 90)

handleHeightChange ==
    \E raw \in HeightInputs :
        Edit([uiParams EXCEPT !.initialHeight = Max(0, Min(100, raw)) * 100],
             "height", raw < 0 \/ raw > 100)

handleGravityChange ==
    \E value \in GravityInputs :
        /\ uiParams' = [uiParams EXCEPT !.gravity = value]
        /\ renderer' = uiUpdatePreview(renderer, simulationState, uiParams')
        /\ canvas' = uiPreviewCanvas(renderer, simulationState, uiParams', canvas)
        /\ last' = Did("input", 0, 0)
        /\ UNCHANGED <<now, rect, queue, simulationState, errors, display>>

\* UIController.setParams, called when a saved simulation is loaded.
loadSimulation ==
    \E saved \in SavedSimulations :
        /\ uiParams' = saved
        /\ renderer' = uiUpdatePreview(renderer, simulationState, uiParams')
        /\ canvas' = uiPreviewCanvas(renderer, simulationState, uiParams', canvas)
        /\ last' = Did("input", 0, 0)
        /\ UNCHANGED <<now, rect, queue, simulationState, errors, display>>

\* ------------------------------------------------------- control handlers
\* handleSimulate runs the simulation unless a control group is in error or
\* validateParameters rejects the params.
simulateStarts == errors = {} /\ validateParameters(uiParams)

handleSimulate ==
    /\ queue.pending < MaxPending
    /\ IF simulateStarts
       THEN /\ simulationState' = "running"
            /\ renderer' = startSimulation(setParams(renderer, uiParams))
            /\ queue' = requestAnimationFrame(queue)
       ELSE UNCHANGED <<simulationState, renderer, queue>>
    /\ last' = Did("simulate", 0, 0)
    /\ UNCHANGED <<now, rect, canvas, uiParams, errors, display>>
TwinSimulate ==
    /\ IF simulateStarts
       THEN /\ renderer2' = startSimulation(setParams(renderer2, uiParams))
            /\ queue2' = requestAnimationFrame(queue2)
       ELSE UNCHANGED <<renderer2, queue2>>
    /\ UNCHANGED now2

\* handlePause on renderer fields r at clock reading clock.
pauseOrResume(r, clock) ==
    IF simulationState = "running" THEN pause(r, clock)
    ELSE IF simulationState = "paused" THEN resume(r, clock)
    ELSE r

handlePause ==
    /\ renderer' = pauseOrResume(renderer, now)
    /\ simulationState' = IF simulationState = "running" THEN "paused"
                          ELSE IF simulationState = "paused" THEN "running"
                          ELSE simulationState
    /\ last' = Did("input", 0, 0)
    /\ UNCHANGED <<now, rect, queue, canvas, uiParams, errors, display>>
TwinPause == renderer2' = pauseOrResume(renderer2, now2) /\ UNCHANGED <<now2, queue2>>
TwinSpace == IF simulationState = "running" THEN TwinPause ELSE UNCHANGED twin

\* handleReset: renderer.reset, clearResults, then UIController.updatePreview.
handleReset ==
    /\ renderer' = uiUpdatePreview(reset(renderer), "idle", uiParams)
    /\ queue' = resetQueue(renderer, queue)
    /\ simulationState' = "idle"
    /\ display' = Cleared
    /\ canvas' = renderPreview(renderer')
    /\ last' = Did("reset", 0, 0)
    /\ UNCHANGED <<now, rect, uiParams, errors>>
TwinReset ==
    /\ renderer2' = uiUpdatePreview(reset(renderer2), "idle", uiParams)
    /\ queue2' = resetQueue(renderer2, queue2)
    /\ UNCHANGED now2

\* The buttons are clickable while updateButtonStates leaves them enabled.
ClickSimulate ==
    simulationState \in {"idle", "completed"} /\ handleSimulate
ClickPause == simulationState \in {"running", "paused"} /\ handlePause
ClickReset == simulationState # "idle" /\ handleReset

\* The keydown handler (focus outside the buttons).
KeyEnter == handleSimulate
KeyEscape == handleReset
KeySpace ==
    IF simulationState = "running"
    THEN handlePause
    ELSE last' = Did("input", 0, 0)
         /\ UNCHANGED <<now, rect, renderer, queue, canvas, uiParams, simulationState,
                        errors, display>>

\* The window resize handler (after its debounce); setting the canvas size
\* clears the canvas.
handleResize ==
    \E size \in RectSizes :
        /\ rect' = size
        /\ renderer' = handleResizeRenderer(renderer, size)
        /\ canvas' = IF renderer.isAnimating THEN NoFrame ELSE renderPreview(renderer')
        /\ last' = Did("input", 0, 0)
        /\ UNCHANGED <<now, queue, uiParams, simulationState, errors, display>>

\* --------------------------------------------------------- frames and time
\* The browser runs an animation frame when callbacks are scheduled; onUpdate is
\* handleSimulationUpdate and onComplete is handleSimulationComplete.
AnimationFrame ==
    /\ queue.pending > 0
    /\ \E f \in {animationFrame(renderer, queue, now)} :
           /\ renderer' = f.r
           /\ queue' = [pending |-> f.requests, latest |-> f.requests > 0]
           /\ canvas' = IF f.frame.kind = "none" THEN canvas ELSE f.frame
           /\ simulationState' = IF f.completes > 0 THEN "completed" ELSE simulationState
           /\ display' = IF f.completes > 0 THEN Showing(uiParams) ELSE display
           /\ last' = Did("animate", f.updates, f.completes)
    /\ UNCHANGED <<now, rect, uiParams, errors>>
TwinFrame ==
    /\ \E f \in {animationFrame(renderer2, queue2, now2)} :
           /\ renderer2' = f.r
           /\ queue2' = [pending |-> f.requests, latest |-> f.requests > 0]
    /\ UNCHANGED now2

\* Time passes.
Advance ==
    /\ now < ClockStart + MaxAdvances * Quantum
    /\ now' = now + Quantum
    /\ UNCHANGED <<rect, renderer, queue, canvas, uiParams, simulationState, errors,
                   display, last>>
TwinAdvance == now2' = now2 + Quantum /\ UNCHANGED <<renderer2, queue2>>

Next ==
    \/ handleVelocityChange /\ UNCHANGED <<twin, side>>
    \/ handleAngleChange /\ UNCHANGED <<twin, side>>
    \/ handleHeightChange /\ UNCHANGED <<twin, side>>
    \/ handleGravityChange /\ UNCHANGED <<twin, side>>
    \/ loadSimulation /\ UNCHANGED <<twin, side>>
    \/ ClickSimulate /\ UNCHANGED <<twin, side>>
    \/ ClickPause /\ UNCHANGED <<twin, side>>
    \/ ClickReset /\ UNCHANGED <<twin, side>>
    \/ KeyEnter /\ UNCHANGED <<twin, side>>
    \/ KeyEscape /\ UNCHANGED <<twin, side>>
    \/ KeySpace /\ UNCHANGED <<twin, side>>
    \/ handleResize /\ UNCHANGED <<twin, side>>
    \/ AnimationFrame /\ UNCHANGED <<twin, side>>
    \/ Advance /\ UNCHANGED <<twin, side>>

Spec == Init /\ [][Next]_vars

\* ------------------------------------------------------------ the twin run
\* The events that reach the controller's clock bookkeeping (start, pause and
\* resume, reset, frames, and the velocity edit that decides the flight time)
\* reach a second renderer too, whose clock runs ahead by the extra time it has
\* spent paused: TwinSkew lets only its clock advance while both runs are
\* paused, at most MaxSkew times.
TwinSkew ==
    /\ renderer.isAnimating /\ renderer.isPaused
    /\ renderer2.isAnimating /\ renderer2.isPaused
    /\ now2 - now < MaxSkew * Quantum
    /\ now2' = now2 + Quantum
    /\ UNCHANGED <<main, renderer2, queue2, side>>

NextTwin ==
    \/ handleVelocityChange /\ TwinEdit /\ UNCHANGED side
    \/ ClickSimulate /\ TwinSimulate /\ UNCHANGED side
    \/ ClickPause /\ TwinPause /\ UNCHANGED side
    \/ ClickReset /\ TwinReset /\ UNCHANGED side
    \/ KeyEnter /\ TwinSimulate /\ UNCHANGED side
    \/ KeyEscape /\ TwinReset /\ UNCHANGED side
    \/ KeySpace /\ TwinSpace /\ UNCHANGED side
    \/ AnimationFrame /\ TwinFrame /\ UNCHANGED side
    \/ Advance /\ TwinAdvance /\ UNCHANGED side
    \/ TwinSkew

SpecTwin == Init /\ [][NextTwin]_vars

\* ------------------------------------------------- the controller's interface
\* CanvasRenderer's methods called directly, in any order a caller may choose:
\* setParams and startSimulation, pause during a run, resume and reset in any
\* state.  The callbacks handed to startSimulation are the UIController's.
CtlParams == {DefaultParams, Params(0, 45, 0, EarthGravity)}

CtlStart ==
    /\ queue.pending < MaxPending
    /\ \E p \in CtlParams :
           renderer' = startSimulation(setParams(renderer, p))
    /\ queue' = requestAnimationFrame(queue)
    /\ last' = Did("simulate", 0, 0)
    /\ UNCHANGED <<now, rect, canvas, uiParams, simulationState, errors, display>>

CtlPause ==
    /\ renderer.isAnimating
    /\ renderer' = pause(renderer, now)
    /\ last' = Did(IF renderer.isPaused THEN "pause while paused" ELSE "pause", 0, 0)
    /\ UNCHANGED <<now, rect, queue, canvas, uiParams, simulationState, errors, display>>

CtlResume ==
    /\ renderer' = resume(renderer, now)
    /\ last' = Did(IF renderer.isPaused THEN "resume" ELSE "resume while not paused", 0, 0)
    /\ UNCHANGED <<now, rect, queue, canvas, uiParams, simulationState, errors, display>>

CtlReset ==
    /\ renderer' = reset(renderer)
    /\ queue' = resetQueue(renderer, queue)
    /\ canvas' = renderPreview(renderer')
    /\ last' = Did("reset", 0, 0)
    /\ UNCHANGED <<now, rect, uiParams, simulationState, errors, display>>

NextCtl ==
    \/ CtlStart /\ UNCHANGED <<twin, side>>
    \/ CtlPause /\ UNCHANGED <<twin, side>>
    \/ CtlResume /\ UNCHANGED <<twin, side>>
    \/ CtlReset /\ UNCHANGED <<twin, side>>
    \/ AnimationFrame /\ UNCHANGED <<twin, side>>
    \/ Advance /\ UNCHANGED <<twin, side>>

SpecCtl == Init /\ [][NextCtl]_vars

\* ------------------------------------------------------------ fair frames
\* The events of a run (the velocity edit, start, pause and resume, reset,
\* frames and time).  The browser runs a frame whenever a callback is scheduled
\* and the clock keeps advancing, up to the end of the modelled time.
NextRun ==
    \/ handleVelocityChange /\ UNCHANGED <<twin, side>>
    \/ ClickSimulate /\ UNCHANGED <<twin, side>>
    \/ ClickPause /\ UNCHANGED <<twin, side>>
    \/ ClickReset /\ UNCHANGED <<twin, side>>
    \/ KeyEnter /\ UNCHANGED <<twin, side>>
    \/ KeyEscape /\ UNCHANGED <<twin, side>>
    \/ KeySpace /\ UNCHANGED <<twin, side>>
    \/ AnimationFrame /\ UNCHANGED <<twin, side>>
    \/ Advance /\ UNCHANGED <<twin, side>>

SpecRun == Init /\ [][NextRun]_vars

SpecFair ==
    /\ Init
    /\ [][NextRun]_vars
    /\ WF_vars(AnimationFrame /\ UNCHANGED <<twin, side>>)
    /\ WF_vars(Advance /\ UNCHANGED <<twin, side>>)

\* ------------------------------------------------------- run stopwatch
\* The page with a stopwatch beside it: ranFor is the wall-clock time that has
\* passed since the last start while the run was animating and not paused.
ClockSimulate ==
    /\ ClickSimulate
    /\ ranFor' = IF simulateStarts THEN 0 ELSE ranFor
    /\ UNCHANGED <<twin, tooltip, calc, countUp>>
ClockAdvance ==
    /\ Advance
    /\ ranFor' = IF renderer.isAnimating /\ ~renderer.isPaused
                 THEN ranFor + Quantum ELSE ranFor
    /\ UNCHANGED <<twin, tooltip, calc, countUp>>

NextClock ==
    \/ ClockSimulate
    \/ ClickPause /\ UNCHANGED <<twin, side>>
    \/ ClickReset /\ UNCHANGED <<twin, side>>
    \/ AnimationFrame /\ UNCHANGED <<twin, side>>
    \/ ClockAdvance

SpecClock == Init /\ [][NextClock]_vars

\* ---------------------------------------------------- result count-up
\* displayResults starts animateValue for each card: a setTimeout and then
\* requestAnimationFrame(step) callbacks that write the rising value until the
\* 800 ms of the animation are over.  Nothing cancels them.
ResultsFrame ==
    /\ AnimationFrame
    /\ countUp' = IF last'.completes > 0 THEN countUp \cup {uiParams} ELSE countUp
    /\ UNCHANGED <<twin, tooltip, calc, ranFor>>

\* One step callback of animateValue: it writes its value on the card and is
\* either scheduled again (progress < 1) or was the last one.
CountUpStep ==
    /\ \E params \in countUp :
           /\ display' = Showing(params)
           /\ countUp' \in {countUp, countUp \ {params}}
    /\ last' = Did("countup", 0, 0)
    /\ UNCHANGED <<now, rect, renderer, queue, canvas, uiParams, simulationState, errors>>
    /\ UNCHANGED <<twin, tooltip, calc, ranFor>>

NextResults ==
    \/ handleVelocityChange /\ UNCHANGED <<twin, side>>
    \/ ClickSimulate /\ UNCHANGED <<twin, side>>
    \/ ClickPause /\ UNCHANGED <<twin, side>>
    \/ ClickReset /\ UNCHANGED <<twin, side>>
    \/ ResultsFrame
    \/ CountUpStep
    \/ Advance /\ UNCHANGED <<twin, side>>

SpecResults == Init /\ [][NextResults]_vars

\* ------------------------------------------------------------ hover probe
\* calculateVelocityAtTime: the magnitude, in cm/s, at a time in milliseconds.
calculateVelocityAtTime(time, p) ==
    LET vx == p.initialVelocity * Cos100(p.launchAngle)
        vy == p.initialVelocity * Sin100(p.launchAngle) - (p.gravity * time) \div 1000
    IN  ISqrt(vx * vx + vy * vy)

Abs(n) == IF n < 0 THEN -n ELSE n
\* Number.toFixed(1) of a non-negative value held in hundredths: tenths.
ToFixed1(hundredths) == (hundredths + 5) \div 10

\* toPhysicsCoords and toCanvasCoords: pixels to centimetres and back.
toPhysicsCoords(r, canvasX, canvasY) ==
    [x |-> ((canvasX - 60) * 100000) \div r.scale,
     y |-> ((r.height - 60 - canvasY) * 100000) \div r.scale]
toCanvasCoords(r, x, y) ==
    [canvasX |-> 60 + (x * r.scale) \div 100000,
     canvasY |-> r.height - 60 - (y * r.scale) \div 100000]

\* findTimeForX, in milliseconds.  Every angle the page is driven with here has
\* a cosine the table Cos100 holds exactly enough; at 90 degrees Math.cos is
\* 6.1e-17, so the code takes the x / vx branch there as well, which the table
\* (cosine 0) does not show.
findTimeForX(r, x) ==
    LET vx == r.params.initialVelocity * Cos100(r.params.launchAngle)
    IN  IF vx > 0 THEN (x * 1000) \div vx ELSE 0

\* calculateVelocityAtPoint: the speed for the renderer's current params.
calculateVelocityAtPoint(r, time) ==
    LET vx == r.params.initialVelocity * Cos100(r.params.launchAngle)
        vy == r.params.initialVelocity * Sin100(r.params.launchAngle)
              - (r.params.gravity * time) \div 1000
    IN  ISqrt(vx * vx + vy * vy)

\* The loop of handleMouseMove over the samples keeps a sample only when it is
\* strictly closer than the one kept: the first sample at the least
\* |x - physicsX| (found FALSE for an empty array).
closestPoint(r, mouseX, mouseY) ==
    LET points == Points(r.trajectoryPoints)
        physicsX == toPhysicsCoords(r, mouseX, mouseY).x
        distance == [k \in 1..Len(points) |-> Abs(points[k].x - physicsX)]
        closestDistance == CHOOSE d \in {distance[k] : k \in 1..Len(points)} :
                               \A k \in 1..Len(points) : d <= distance[k]
        best == CHOOSE k \in 1..Len(points) :
                    /\ distance[k] = closestDistance
                    /\ \A j \in 1..(k - 1) : distance[j] # closestDistance
    IN  IF Len(points) = 0 THEN [found |-> FALSE]
        ELSE [found |-> TRUE, point |-> points[best], distance |-> closestDistance]

\* The frame renderFinal draws: the whole run trajectory, the projectile on its
\* last sample.  With no samples lastPoint is undefined and reading lastPoint.x
\* throws after the canvas was cleared and redrawn without a projectile.
renderFinal(r) ==
    LET points == Points(r.trajectoryPoints)
    IN  [kind |-> IF Len(points) = 0 THEN "threw" ELSE "final",
         points |-> r.trajectoryPoints,
         drawnTo |-> drawTrajectory(r.trajectoryPoints, PointCount(r.trajectoryPoints) - 1),
         projectile |-> IF Len(points) = 0 THEN [x |-> 0, y |-> 0]
                        ELSE [x |-> points[Len(points)].x,
                              y |-> Max(0, points[Len(points)].y)]]

\* renderWithHoverPoint draws the same frame and the hover marker on it.
renderWithHoverPoint(r, hoverX, hoverY) ==
    [renderFinal(r) EXCEPT !.kind = "hover"]

\* handleMouseMove on the renderer r, the tooltip tip and the canvas cv.
handleMouseMove(r, tip, cv, mouseX, mouseY) ==
    IF r.isAnimating /\ ~r.isPaused THEN [tooltip |-> tip, canvas |-> cv]
    ELSE IF PointCount(r.trajectoryPoints) = 0 THEN [tooltip |-> tip, canvas |-> cv]
    ELSE LET closest == closestPoint(r, mouseX, mouseY)
             px == closest.point.x
             py == closest.point.y
             at == toCanvasCoords(r, px, py)
         IN  IF closest.found /\ closest.distance < 500
                /\ Abs(mouseY - at.canvasY) < 30
             THEN [tooltip |-> [visible |-> TRUE,
                                height |-> ToFixed1(py),
                                distance |-> ToFixed1(px),
                                velocity |-> ToFixed1(calculateVelocityAtPoint(r, findTimeForX(r, px))),
                                left |-> at.canvasX + 15,
                                top |-> at.canvasY - 60],
                   canvas |-> renderWithHoverPoint(r, px, py)]
             ELSE [tooltip |-> [tip EXCEPT !.visible = FALSE], canvas |-> cv]

\* handleMouseLeave.
handleMouseLeave(r, tip, cv) ==
    [tooltip |-> [tip EXCEPT !.visible = FALSE],
     canvas |-> IF ~r.isAnimating \/ r.isPaused THEN renderFinal(r) ELSE cv]

\* Pointer positions relative to the canvas (event.clientX - rect.left,
\* event.clientY - rect.top): over the launcher, mid-flight, the landing point
\* of the default run, and above the curve.
MousePositions ==
    {[x |-> 60, y |-> 440], [x |-> 380, y |-> 290], [x |-> 700, y |-> 440],
     [x |-> 380, y |-> 100]}

MouseMoveAt(mouseX, mouseY) ==
    /\ \E h \in {handleMouseMove(renderer, tooltip, canvas, mouseX, mouseY)} :
           /\ tooltip' = h.tooltip
           /\ canvas' = h.canvas
    /\ last' = Did("mousemove", 0, 0)
    /\ UNCHANGED <<now, rect, renderer, queue, uiParams, simulationState, errors,
                   display, calc, ranFor, countUp>>
MouseMove == \E mouse \in MousePositions : MouseMoveAt(mouse.x, mouse.y)

MouseLeave ==
    /\ \E h \in {handleMouseLeave(renderer, tooltip, canvas)} :
           /\ tooltip' = h.tooltip
           /\ canvas' = h.canvas
           /\ last' = Did(IF h.canvas.kind = "threw" THEN "mouseleave threw" ELSE "mouseleave",
                          0, 0)
    /\ UNCHANGED <<now, rect, renderer, queue, uiParams, simulationState, errors,
                   display, calc, ranFor, countUp>>

\* The page with the pointer over the canvas: the velocity edit, the three
\* buttons, frames, time and the two mouse events.
NextHover ==
    \/ handleVelocityChange /\ UNCHANGED <<twin, side>>
    \/ ClickSimulate /\ UNCHANGED <<twin, side>>
    \/ ClickPause /\ UNCHANGED <<twin, side>>
    \/ ClickReset /\ UNCHANGED <<twin, side>>
    \/ AnimationFrame /\ UNCHANGED <<twin, side>>
    \/ Advance /\ UNCHANGED <<twin, side>>
    \/ MouseMove /\ UNCHANGED twin
    \/ MouseLeave /\ UNCHANGED twin

SpecHover == Init /\ [][NextHover]_vars

\* ------------------------------------------------- direct physics calls
\* The exported functions of physics.js and the scale mapper called on their
\* own, with arguments from bounded sets: any params for validateParameters,
\* params with non-zero gravity for the kinematics (negative gravity included),
\* valid params for the sampler.  A call returns its value: none of the
\* functions has a throw or an assertion.
ValidateVelocities == {-5, 0, 100, 150, 250}
ValidateAngles == {-10, 0, 90, 100}
ValidateHeights == {-100, 0, 500}
ValidateGravities == {-981, 0, 5, 981}
KinematicVelocities == {0, 10, 25}
KinematicAngles == {0, 30, 45, 60, 90}
KinematicHeights == {0, 500, 2000}
ValidGravities == {162, 372, EarthGravity}
KinematicGravities == ValidGravities \cup {-981}
ScaleExtents == {0, 500, 1605, 6421, 25484, 101937}
ScaleSizes == RectSizes \cup {[width |-> 90, height |-> 90]}

Returned(v) == [kind |-> "value", value |-> v]

CallValidate ==
    /\ \E v \in ValidateVelocities, a \in ValidateAngles,
          h \in ValidateHeights, g \in ValidateGravities :
           calc' = [call |-> "validateParameters", params |-> Params(v, a, h, g),
                    result |-> Returned(validateParameters(Params(v, a, h, g)))]
    /\ UNCHANGED <<main, twin, tooltip, ranFor, countUp>>

CallSimulationValidation ==
    /\ \E v \in ValidateVelocities, a \in ValidateAngles,
          h \in ValidateHeights, g \in ValidateGravities :
           calc' = [call |-> "simulationValidation", params |-> Params(v, a, h, g),
                    result |-> Returned(simulationValidation(Params(v, a, h, g)))]
    /\ UNCHANGED <<main, twin, tooltip, ranFor, countUp>>

CallKinematics ==
    /\ \E v \in KinematicVelocities, a \in KinematicAngles,
          h \in KinematicHeights, g \in KinematicGravities :
           LET p == Params(v, a, h, g)
           IN  calc' = [call |-> "kinematics", params |-> p,
                        flightTime |-> Returned(calculateFlightTime(p)),
                        range |-> Returned(calculateRange(p)),
                        maxHeight |-> Returned(calculateMaxHeight(p)),
                        landing |-> calculatePositionAtTime(calculateFlightTime(p), p)]
    /\ UNCHANGED <<main, twin, tooltip, ranFor, countUp>>

CallSample ==
    /\ \E v \in KinematicVelocities, a \in KinematicAngles,
          h \in KinematicHeights, g \in ValidGravities, n \in 1..MaxSamples :
           LET p == Params(v, a, h, g)
           IN  calc' = [call |-> "generateTrajectoryPoints", params |-> p,
                        numPoints |-> n, flightTime |-> calculateFlightTime(p),
                        points |-> generateTrajectoryPoints(p, n)]
    /\ UNCHANGED <<main, twin, tooltip, ranFor, countUp>>

CallScale ==
    /\ \E size \in ScaleSizes, maxX \in ScaleExtents, maxY \in ScaleExtents :
           calc' = [call |-> "calculateOptimalScale", size |-> size,
                    maxX |-> maxX, maxY |-> maxY,
                    scale |-> calculateOptimalScale(size, maxX, maxY)]
    /\ UNCHANGED <<main, twin, tooltip, ranFor, countUp>>

NextCalc ==
    \/ CallValidate
    \/ CallSimulationValidation
    \/ CallKinematics
    \/ CallSample
    \/ CallScale

SpecCalc == Init /\ [][NextCalc]_vars

\* ------------------------------------------------------------- properties
Running == renderer.isAnimating /\ ~renderer.isPaused
Paused == renderer.isAnimating /\ renderer.isPaused
\* The anchor a tick at the current clock reading works with: animate sets
\* startTimestamp to the tick's timestamp when it is unset.
Anchor == IF Falsy(renderer.startTimestamp) THEN now ELSE renderer.startTimestamp
\* The run's flight time has elapsed on the clock.
Due == Running /\ now - Anchor >= renderer.flightTime
ClockEnd == ClockStart + MaxAdvances * Quantum
EditStep ==
    \/ handleVelocityChange
    \/ handleAngleChange
    \/ handleHeightChange
    \/ handleGravityChange
    \/ loadSimulation

\* C1: two runs of the same events that differ only in how long they stay
\* paused show the same currentTime after every tick.
C1_PauseLengthIrrelevant == renderer.currentTime = renderer2.currentTime

C3_ResetAndStaleFrames ==
    /\ [][(last'.op = "reset" /\ (ClickReset \/ KeyEscape)) =>
             /\ ~renderer'.isAnimating /\ ~renderer'.isPaused
             /\ renderer'.currentTime = 0
             /\ renderer'.startTimestamp = NULL
             /\ ~queue'.latest
             /\ simulationState' = "idle"]_vars
    /\ [][(AnimationFrame /\ ~renderer.isAnimating) =>
             /\ renderer' = renderer
             /\ canvas' = canvas
             /\ simulationState' = simulationState
             /\ display' = display
             /\ last'.updates = 0 /\ last'.completes = 0]_vars
C3_Witness ==
    /\ last.op = "animate"
    /\ simulationState = "idle"
    /\ ~renderer.isAnimating
    /\ renderer.currentTime = 0 /\ renderer.startTimestamp = NULL

\* C4: a tick delivered while Paused changes neither currentTime nor the anchor
\* nor the state, and invokes neither onUpdate nor onComplete.
C4_PausedTickNoOp ==
    [][(AnimationFrame /\ Paused) =>
          /\ renderer'.currentTime = renderer.currentTime
          /\ renderer'.startTimestamp = renderer.startTimestamp
          /\ renderer'.pauseTimestamp = renderer.pauseTimestamp
          /\ renderer'.isAnimating /\ renderer'.isPaused
          /\ simulationState' = simulationState
          /\ canvas' = canvas
          /\ last'.updates = 0 /\ last'.completes = 0]_vars
C4_Witness ==
    /\ last.op = "animate"
    /\ Paused
    /\ simulationState = "paused"
    /\ renderer.currentTime > 0

\* C5: pause on a run that is already Paused is a no-op: the pause timestamp,
\* the anchor and currentTime stay as the first pause left them.
C5_PauseWhilePaused ==
    [][(CtlPause /\ Paused) => renderer' = renderer]_vars

C7_StartWhileActive ==
    [][((ClickSimulate \/ KeyEnter) /\ simulationState \in {"running", "paused"}) =>
          /\ renderer' = renderer
          /\ queue' = queue
          /\ simulationState' = simulationState]_vars

\* C8: the frame drawn by the tick that completes the run shows the projectile
\* at the position for t = flightTime and the trajectory drawn up to the last
\* sample index.
C8_CompletingFrame ==
    [][(AnimationFrame /\ last'.completes > 0) =>
          /\ canvas'.kind = "animate"
          /\ canvas'.projectile =
                 LET position == calculatePositionAtTime(renderer.flightTime,
                                                         renderer.params)
                 IN  [x |-> position.x, y |-> Max(0, position.y)]
          /\ canvas'.drawnTo = PointCount(renderer.trajectoryPoints) - 1]_vars

\* C9: with frames delivered fairly and the clock advancing, a Running run
\* reaches completion with onComplete invoked, unless it is reset or paused, or
\* the modelled time ends before its flight time has elapsed.
C9_RunCompletes ==
    Running ~> \/ last.completes > 0
               \/ last.op = "reset"
               \/ Paused
               \/ (now = ClockEnd /\ ~Due)
C9_Witness ==
    /\ last.completes > 0
    /\ simulationState = "completed"
    /\ renderer.flightTime = 0

\* C10: a parameter edit while the run is Running or Paused leaves the
\* snapshot, the trajectory and the flight time alone, and every frame of the
\* run draws the snapshot's trajectory and a position computed from it.
C10_EditsDuringRun ==
    /\ [][(EditStep /\ simulationState \in {"running", "paused"}) =>
             /\ renderer'.params = renderer.params
             /\ renderer'.trajectoryPoints = renderer.trajectoryPoints
             /\ renderer'.flightTime = renderer.flightTime
             /\ renderer'.currentTime = renderer.currentTime]_vars
    /\ [][(AnimationFrame /\ last'.updates > 0) =>
             /\ canvas'.points = renderer.trajectoryPoints
             /\ renderer.trajectoryPoints = Sampled(renderer.params, RunSamples)
             /\ renderer.flightTime = calculateFlightTime(renderer.params)
             /\ canvas'.projectile =
                    LET position == calculatePositionAtTime(renderer'.currentTime,
                                                            renderer.params)
                    IN  [x |-> position.x, y |-> Max(0, position.y)]]_vars
C10_Witness ==
    /\ last.op = "animate" /\ last.updates > 0
    /\ renderer.isAnimating
    /\ renderer.currentTime > 0
    /\ uiParams # renderer.params

\* C11: a resize in any state recomputes the scale for the new canvas size and
\* leaves the flags, the UI state, currentTime, the anchor and the pause
\* timestamp as they were.
C11_ResizeKeepsRun ==
    [][(last'.op = "input" /\ handleResize) =>
          /\ renderer'.width = rect'.width /\ renderer'.height = rect'.height
          /\ renderer'.scale =
                 calculateOptimalScale(renderer', calculateRange(renderer.params),
                                       calculateMaxHeight(renderer.params))
          /\ renderer'.isAnimating = renderer.isAnimating
          /\ renderer'.isPaused = renderer.isPaused
          /\ renderer'.currentTime = renderer.currentTime
          /\ renderer'.startTimestamp = renderer.startTimestamp
          /\ renderer'.pauseTimestamp = renderer.pauseTimestamp
          /\ simulationState' = simulationState
          /\ queue' = queue]_vars
C11_Witness ==
    /\ Paused
    /\ renderer.currentTime > 0
    /\ rect # InitialRect /\ renderer.width = rect.width
    /\ canvas = NoFrame

C13_ScaleClamped == renderer.scale \in 2000..20000
C13_Witness ==
    /\ renderer.scale = 2000
    /\ rect # InitialRect
    /\ renderer.isAnimating

\* The padded extent of an axis as calculateOptimalScale computes it, and as
\* C14 states it, in centimetres.
PaddedExtent(extent) == IF extent = 0 THEN 1000 ELSE (extent * 11) \div 10
PaddedExtentStated(extent) == IF extent = 0 THEN 1100 ELSE (extent * 11) \div 10
ScaleFor(size, paddedX, paddedY) ==
    Max(Min(Min((drawableWidth(size) * 100000) \div paddedX,
                (drawableHeight(size) * 100000) \div paddedY), 20000), 2000)
ZeroExtentCall ==
    calc.call = "calculateOptimalScale" /\ (calc.maxX = 0 \/ calc.maxY = 0)

\* C14 as stated: a zero extent is replaced by 10 m and then padded to 11 m.
C14_DefaultThenPadding ==
    ZeroExtentCall =>
        calc.scale = ScaleFor(calc.size, PaddedExtentStated(calc.maxX),
                              PaddedExtentStated(calc.maxY))
\* C14 amended: a zero extent gives a padded extent of 10 m (the default takes
\* the place of the padded value), and the scale is a number within [2, 20].
C14_DefaultInsteadOfPadding ==
    ZeroExtentCall =>
        /\ calc.scale = ScaleFor(calc.size, PaddedExtent(calc.maxX),
                                 PaddedExtent(calc.maxY))
        /\ calc.scale \in 2000..20000
C14_Witness ==
    /\ ZeroExtentCall
    /\ calc.maxX = 0 /\ calc.maxY = 0
    /\ calc.size = [width |-> 200, height |-> 140]
    /\ calc.scale = 4000

SampleCall == calc.call = "generateTrajectoryPoints"
SampleShape ==
    /\ Len(calc.points) = calc.numPoints + 1
    /\ calc.points[1].t = 0
    /\ calc.points[calc.numPoints + 1].t = calc.flightTime
    /\ calc.flightTime = calculateFlightTime(calc.params)

\* C15 as stated: the sampler returns n + 1 points, first t = 0, last
\* t = flightTime, with strictly increasing t.
C15_StrictlyIncreasing ==
    SampleCall =>
        /\ SampleShape
        /\ \A k \in 1..calc.numPoints : calc.points[k].t < calc.points[k + 1].t
\* C15 amended: n + 1 points, first t = 0, last t = flightTime; the t values
\* are strictly increasing when flightTime > 0 and all 0 when flightTime = 0.
C15_IncreasingUnlessZeroFlight ==
    SampleCall =>
        /\ SampleShape
        /\ calc.flightTime > 0 =>
               \A k \in 1..calc.numPoints : calc.points[k].t < calc.points[k + 1].t
        /\ calc.flightTime = 0 =>
               \A k \in 1..(calc.numPoints + 1) : calc.points[k].t = 0
C15_Witness ==
    /\ SampleCall
    /\ calc.numPoints > 1
    /\ calc.flightTime = 0
    /\ calc.points[calc.numPoints + 1].t = 0

\* The bounds C16 states: velocity in [0, 100], angle in [0, 90], height >= 0,
\* gravity > 0.
StatedValid(p) ==
    /\ p.initialVelocity >= 0 /\ p.initialVelocity <= 100
    /\ p.launchAngle >= 0 /\ p.launchAngle <= 90
    /\ p.initialHeight >= 0
    /\ p.gravity > 0

\* C16: validation reports params invalid exactly when the velocity is outside
\* [0, 100], the angle outside [0, 90], the height negative or the gravity not
\* positive.
C16_ValidateBounds ==
    calc.call \in {"validateParameters", "simulationValidation"} =>
        calc.result = Returned(StatedValid(calc.params))

\* C17: a kinematics function called with negative gravity ends in an error,
\* never in a returned number.
C17_OutOfDomainFails ==
    (calc.call = "kinematics" /\ calc.params.gravity < 0) =>
        /\ calc.flightTime.kind = "error"
        /\ calc.range.kind = "error"
        /\ calc.maxHeight.kind = "error"

\* C18: for valid params the position at t = flightTime is the landing point:
\* its height is 0 and its x is the range, within LandingEpsilon.
C18_LandingPoint ==
    (calc.call = "kinematics" /\ StatedValid(calc.params)) =>
        /\ calc.landing.y >= -LandingEpsilon /\ calc.landing.y <= LandingEpsilon
        /\ calc.landing.x - calc.range.value >= -LandingEpsilon
        /\ calc.landing.x - calc.range.value <= LandingEpsilon
C18_Witness ==
    /\ calc.call = "kinematics"
    /\ calc.params = Params(25, 45, 2000, EarthGravity)
    /\ calc.range.value > 6421

\* C20: pressing Space toggles pause: it pauses a Running run and resumes a
\* Paused one.
C20_SpaceToggles ==
    [][(last'.op = "input" /\ KeySpace) =>
          /\ simulationState = "running" =>
                 (simulationState' = "paused" /\ Paused')
          /\ simulationState = "paused" =>
                 (simulationState' = "running" /\ Running')]_vars

\* The pointer at (mouseX, mouseY) hits the trajectory: handleMouseMove finds a
\* sample within 5 m and 30 px and shows the tooltip for it.
Hit(mouseX, mouseY) ==
    /\ ~Running
    /\ PointCount(renderer.trajectoryPoints) > 0
    /\ LET closest == closestPoint(renderer, mouseX, mouseY)
       IN  /\ closest.distance < 500
           /\ Abs(mouseY - toCanvasCoords(renderer, closest.point.x,
                                          closest.point.y).canvasY) < 30

\* C19: on a hover that hits the trajectory the speed shown is the speed of
\* the run at the reported sample's own time t.
C19_ProbeSpeedAtSample ==
    [][\A mouse \in MousePositions :
          (last'.op = "mousemove" /\ MouseMoveAt(mouse.x, mouse.y) /\ Hit(mouse.x, mouse.y)) =>
              tooltip'.velocity =
                  ToFixed1(calculateVelocityAtTime(
                               closestPoint(renderer, mouse.x, mouse.y).point.t,
                               renderer.trajectoryPoints.of))]_vars

\* C21: a run is Completed only after it has spent at least flightTime of
\* wall-clock time not paused since its start.
C21_NoEarlyCompletion ==
    simulationState = "completed" => ranFor >= renderer.flightTime

\* C22: at most one frame callback of the animation loop is scheduled at any
\* time.
C22_OnePendingCallback == queue.pending <= 1

\* C23: when a run completes, the results put on display are those of the
\* params the run was started with (the renderer's params during the run).
C23_ResultsOfSnapshot ==
    [][last'.completes > 0 => display' = Showing(renderer.params)]_vars

\* C25: once cleared by reset, the result cards stay cleared until a run
\* completes.
C25_ClearedUntilCompletion ==
    [][(display = Cleared /\ display' # Cleared) => last'.completes > 0]_vars

\* C26: between handlers the UI state and the renderer's flags agree: running
\* iff animating and not paused, paused iff animating and paused, idle or
\* completed iff not animating.
C26_StateAgreesWithFlags ==
    /\ simulationState = "running" <=> Running
    /\ simulationState = "paused" <=> Paused
    /\ simulationState \in {"idle", "completed"} <=> ~renderer.isAnimating
C26_Witness ==
    /\ simulationState = "paused"
    /\ Paused
    /\ rect # InitialRect
    /\ renderer.currentTime > 0

\* C27: once a run has been started 0 <= currentTime <= flightTime, and a tick
\* of a run in progress never moves currentTime backwards.
C27_SimTimeBoundedMonotone ==
    /\ [](renderer.flightTime # NULL =>
              (0 <= renderer.currentTime /\ renderer.currentTime <= renderer.flightTime))
    /\ [][(last'.op = "animate" /\ renderer.isAnimating) =>
              renderer'.currentTime >= renderer.currentTime]_vars
C27_Witness ==
    /\ Running
    /\ last.op = "animate"
    /\ renderer.pauseTimestamp # NULL
    /\ renderer.currentTime > 0
    /\ renderer.currentTime < renderer.flightTime

\* C28: on a viewport with a drawable area the chosen scale makes the
\* trajectory fit: range x scale <= drawableWidth and maxHeight x scale <=
\* drawableHeight.
C28_TrajectoryFits ==
    (/\ calc.call = "calculateOptimalScale"
     /\ drawableWidth(calc.size) > 0
     /\ drawableHeight(calc.size) > 0) =>
        /\ calc.maxX * calc.scale <= drawableWidth(calc.size) * 100000
        /\ calc.maxY * calc.scale <= drawableHeight(calc.size) * 100000

\* The frame of the frozen run: what animate draws for currentTime.
FrozenFrame(r) ==
    [projectile |-> [x |-> calculatePositionAtTime(r.currentTime, r.params).x,
                     y |-> Max(0, calculatePositionAtTime(r.currentTime, r.params).y)],
     drawnTo |-> drawTrajectory(r.trajectoryPoints,
                                IF r.flightTime = 0 THEN NaN
                                ELSE (r.currentTime * (PointCount(r.trajectoryPoints) - 1))
                                       \div r.flightTime)]

\* C24: while the run is Paused, a frame drawn by a pointer move or a pointer
\* leave shows the projectile at the position for the frozen currentTime and
\* the trajectory up to that time.
C24_PausedFramesFrozen ==
    [][(/\ last'.op \in {"mousemove", "mouseleave", "mouseleave threw"}
        /\ Paused
        /\ canvas' # canvas) =>
           /\ canvas'.projectile = FrozenFrame(renderer).projectile
           /\ canvas'.drawnTo = FrozenFrame(renderer).drawnTo]_vars

\* C29: the tooltip is never visible while Running, and a pointer move in
\* state idle neither shows the tooltip nor redraws the canvas.
C29_HoverOnlyPausedOrCompleted ==
    /\ [](simulationState = "running" => ~tooltip.visible)
    /\ [][(last'.op = "mousemove" /\ simulationState = "idle") =>
              (~tooltip'.visible /\ canvas' = canvas)]_vars

\* C30: a pointer leave before any run was started raises no error and leaves
\* the preview on the canvas.
C30_LeaveBeforeAnyRun ==
    (/\ last.op \in {"mouseleave", "mouseleave threw"}
     /\ PointCount(renderer.trajectoryPoints) = 0) =>
        /\ last.op = "mouseleave"
        /\ canvas = renderPreview(renderer)
====
